---- MODULE Spec2Model ----
(***************************************************************************)
(* Model of the teleprompter display loop of src/teleprompter.py: the      *)
(* script document (script_lines, page_anchors), the scroll state (text_y, *)
(* page_mode, scroll_speed, scrolling, blackout_on) and the key handlers   *)
(* of the main loop.  Line indices are 0-based as in the source; a line is *)
(* a sequence of one-character strings.                                    *)
(***************************************************************************)
EXTENDS Integers, Sequences, FiniteSets, TLC

VARIABLES
    script_lines,        \* list of lines of the loaded script
    page_anchors,        \* sorted list of 0-based anchor line indices
    text_y,              \* vertical pixel position of line 0
    scroll_speed,        \* pixels per frame
    scrolling,           \* TRUE = not paused
    page_mode,           \* TRUE = Paged, FALSE = FreeScroll
    blackout_on,         \* presenter black screen
    layout_initialized,  \* first-frame sizing done
    presenter_profile,   \* name of the active presenter profile
    pc,                  \* "loop" while the display loop runs
    fh,                  \* height of the frames of the session (line 252)
    script_file,         \* path of the file script_lines was read from
    round_trip,          \* history: the offset the mode key was pressed at
    presenter_maps,      \* _presenter_maps: the profiles of presenters.json
    focus_on,            \* focus assist overlay
    flip_video,          \* horizontal flip of the camera picture
    env,                 \* what the keyboard and the web UI of the session send
    event,               \* history: the last polled event and its action
    device,              \* camera handle, window, failed reads in a row
    web                  \* the dashboard: recorder threads, requests, player

vars == << script_lines, page_anchors, text_y, scroll_speed, scrolling,
           page_mode, blackout_on, layout_initialized, presenter_profile, pc,
           fh, script_file, round_trip, presenter_maps, focus_on, flip_video,
           env, event, device, web >>

-----------------------------------------------------------------------------
(* Bounds of the model *)

\* longest script, in lines, that a session loads
MaxLines == 4

\* longest script of a session that only starts and reloads
MaxAnchorLines == 4

\* longest script of a session that stays in page mode
MaxPageLines == 5

\* longest script of a session whose mode round trips are recorded
MaxToggleLines == 4

\* polled events a session that records them is followed for
MaxEvents == 2

\* longest script of a session in front of a camera
MaxCameraLines == 1

\* height of the frames a camera delivers when it does not honour line 113
CameraHeight == 480

\* recording threads the dashboard creates while it is followed
MaxThreads == 3

\* teleprompter processes the dashboard launches while it is followed
MaxProcesses == 2

-----------------------------------------------------------------------------
(* Configuration variables, teleprompter.py 56-65 and 137-139 *)

InitialSpeed == 3
MinSpeed == 1
MaxSpeed == 20
line_spacing == 60
frame_height == 720
start_y == frame_height
page_anchor_y == 120
MarkerLen == 8

current_file_idx == 0
max_failed_reads == 100

-----------------------------------------------------------------------------
(* Generic helpers *)

Max2(a, b) == IF a >= b THEN a ELSE b
Min2(a, b) == IF a <= b THEN a ELSE b

\* the elements of a finite set of integers as an increasing sequence: sorted(set(...))
RECURSIVE SortedSeq(_)
SortedSeq(S) ==
    IF S = {} THEN << >>
    ELSE LET m == CHOOSE x \in S : \A y \in S : x <= y
         IN  << m >> \o SortedSeq(S \ {m})

Range(s) == { s[i] : i \in 1..Len(s) }

RECURSIVE Repeat(_, _)
Repeat(c, n) == IF n = 0 THEN << >> ELSE << c >> \o Repeat(c, n - 1)

-----------------------------------------------------------------------------
(* Script model: str.lstrip, str.startswith, compute_page_anchors *)

Whitespace == { " ", "\t" }

\* str.lstrip(): drop the leading whitespace characters
RECURSIVE lstrip(_)
lstrip(ln) ==
    IF ln # << >> /\ Head(ln) \in Whitespace THEN lstrip(Tail(ln)) ELSE ln

\* s.startswith(prefix)
startswith(s, prefix) ==
    /\ Len(s) >= Len(prefix)
    /\ SubSeq(s, 1, Len(prefix)) = prefix

Marker == Repeat("=", MarkerLen)

\* variant: the line is tested as read, without lstrip()
IsDivider_unstripped(ln) == startswith(ln, Marker)

\* the test of line 146-147
IsDivider(ln) == startswith(lstrip(ln), Marker)

\* the for-loop of lines 145-150: i is the 0-based index of the next line to
\* look at, anchors the list built so far
RECURSIVE AnchorLoop(_, _, _)
AnchorLoop(lines, i, anchors) ==
    IF i >= Len(lines) THEN anchors
    ELSE IF IsDivider(lines[i + 1])
         THEN AnchorLoop(lines, i + 1,
                  Append(anchors, IF i + 1 < Len(lines) THEN i + 1 ELSE i))
         ELSE AnchorLoop(lines, i + 1, anchors)

\* variant: the collected indices are not filtered by 0 <= a < len(lines)
compute_page_anchors_unfiltered(lines) ==
    SortedSeq(Range(AnchorLoop(lines, 0, << 0 >>)))

compute_page_anchors(lines) ==
    LET anchors == AnchorLoop(lines, 0, << 0 >>)
    IN  SortedSeq({ a \in Range(anchors) : 0 <= a /\ a < Len(lines) })

-----------------------------------------------------------------------------
(* Paging functions, teleprompter.py 157-182; y is the value of text_y *)

\* Python 3 round() of the quotient n / d (d > 0): ties go to the even integer
RoundHalfEven(n, d) ==
    LET q == n \div d
        r == n % d
    IN  IF 2 * r < d THEN q
        ELSE IF 2 * r > d THEN q + 1
        ELSE IF q % 2 = 0 THEN q ELSE q + 1

jump_to_anchor(anchor_idx) == page_anchor_y - anchor_idx * line_spacing

\* variant: the difference is taken the other way round
get_current_top_index_flipped(y) ==
    Max2(0, RoundHalfEven(y - page_anchor_y, line_spacing))

get_current_top_index(y) ==
    Max2(0, RoundHalfEven(page_anchor_y - y, line_spacing))

\* variant: the test is a > cur_top
jump_next_page_adjacent(anchors, y) ==
    LET cur_top == get_current_top_index(y)
        hits == { i \in 1..Len(anchors) : anchors[i] > cur_top }
    IN  IF hits = {} THEN y
        ELSE jump_to_anchor(anchors[CHOOSE i \in hits : \A j \in hits : i <= j])

\* variant: with no later anchor the jump goes back to the first one
jump_next_page_wrapping(anchors, y) ==
    LET cur_top == get_current_top_index(y)
        hits == { i \in 1..Len(anchors) : anchors[i] > cur_top + 1 }
    IN  IF hits = {} THEN (IF anchors = << >> THEN y ELSE jump_to_anchor(anchors[1]))
        ELSE jump_to_anchor(anchors[CHOOSE i \in hits : \A j \in hits : i <= j])

\* variant: the test is a > cur_top + 2
jump_next_page_skipping(anchors, y) ==
    LET cur_top == get_current_top_index(y)
        hits == { i \in 1..Len(anchors) : anchors[i] > cur_top + 2 }
    IN  IF hits = {} THEN y
        ELSE jump_to_anchor(anchors[CHOOSE i \in hits : \A j \in hits : i <= j])

\* first anchor a of the list with a > cur_top + 1, else stay
jump_next_page(anchors, y) ==
    LET cur_top == get_current_top_index(y)
        hits == { i \in 1..Len(anchors) : anchors[i] > cur_top + 1 }
    IN  IF hits = {} THEN y
        ELSE jump_to_anchor(anchors[CHOOSE i \in hits : \A j \in hits : i <= j])

\* the loop of lines 176-180 stops at the first anchor that is not < cur_top
RECURSIVE PrevLoop(_, _, _, _)
PrevLoop(anchors, i, cur_top, prev) ==
    IF i > Len(anchors) THEN prev
    ELSE IF anchors[i] < cur_top THEN PrevLoop(anchors, i + 1, cur_top, anchors[i])
    ELSE prev

\* variant: the test is a <= cur_top
jump_prev_page_inclusive(anchors, y) ==
    LET cur_top == get_current_top_index(y)
        prev == PrevLoop(anchors, 1, cur_top + 1, -1)
    IN  IF prev # -1 THEN jump_to_anchor(prev) ELSE y

\* -1 stands for None
jump_prev_page(anchors, y) ==
    LET cur_top == get_current_top_index(y)
        prev == PrevLoop(anchors, 1, cur_top, -1)
    IN  IF prev # -1 THEN jump_to_anchor(prev) ELSE y

\* lines 165-182: the offsets that next and previous lead to from the
\* offsets ys, in any number of jumps
RECURSIVE PagedOffsets(_, _)
PagedOffsets(anchors, ys) ==
    LET more == ys \cup { jump_next_page(anchors, y) : y \in ys }
                   \cup { jump_prev_page(anchors, y) : y \in ys }
    IN  IF more = ys THEN ys ELSE PagedOffsets(anchors, more)

\* lines 184-186: the top indices a session in Paged mode can page to from
\* its first page
PagedTops(anchors) ==
    { get_current_top_index(y) :
        y \in PagedOffsets(anchors, { jump_to_anchor(anchors[1]) }) }

\* the loop of lines 394-399
RECURSIVE CandidateLoop(_, _, _, _)
CandidateLoop(anchors, i, cur_top, candidate) ==
    IF i > Len(anchors) THEN candidate
    ELSE IF anchors[i] <= cur_top
         THEN CandidateLoop(anchors, i + 1, cur_top, anchors[i])
    ELSE candidate

\* variant: the candidate test is a < cur_top
toggle_page_mode_strict(anchors, y, new_mode) ==
    LET cur_top == get_current_top_index(y)
    IN  IF new_mode
        THEN jump_to_anchor(CandidateLoop(anchors, 1, cur_top - 1, 0))
        ELSE page_anchor_y - cur_top * line_spacing

\* variant: entering page mode aligns to the top line itself
toggle_page_mode_to_top_line(anchors, y, new_mode) ==
    LET cur_top == get_current_top_index(y)
    IN  page_anchor_y - cur_top * line_spacing

\* lines 390-403: the new text_y after page_mode has been flipped to new_mode
toggle_page_mode(anchors, y, new_mode) ==
    LET cur_top == get_current_top_index(y)
    IN  IF new_mode
        THEN jump_to_anchor(CandidateLoop(anchors, 1, cur_top, 0))
        ELSE page_anchor_y - cur_top * line_spacing

-----------------------------------------------------------------------------
(* Input decoder, teleprompter.py 323-423 *)

\* key_raw & 0xFF (255 for the no-key result -1)
Masked(key_raw) == key_raw % 256

\* the built-in generic code sets of lines 351-358
GenericSets ==
    [ KEY_BLACK_RAW    |-> { 98, 66 },
      KEY_LEFT_RAW     |-> { 81, 2424832 },
      KEY_RIGHT_RAW    |-> { 83, 2555904 },
      KEY_PAGEUP_RAW   |-> { 65365, 2162688 },
      KEY_PAGEDOWN_RAW |-> { 65366, 2228224 },
      KEY_PLAY_RAW     |-> { 13, 116, 65474 },
      KEY_PREV_ASCII   |-> { 60 },
      KEY_NEXT_ASCII   |-> { 62 } ]

\* m = {} of line 340: every m.get(name, []) is empty
EmptySets ==
    [ KEY_BLACK_RAW    |-> {},
      KEY_LEFT_RAW     |-> {},
      KEY_RIGHT_RAW    |-> {},
      KEY_PAGEUP_RAW   |-> {},
      KEY_PAGEDOWN_RAW |-> {},
      KEY_PLAY_RAW     |-> {},
      KEY_PREV_ASCII   |-> {},
      KEY_NEXT_ASCII   |-> {} ]

\* A value of presenters.json as json.load returns it: a profile entry has
\* shape "object" (a dict, lists = its code lists), "null" (a falsy value) or
\* "array" (some other truthy value); a code list has shape "array" (a list
\* of integers, codes = its members), "string", or "number".
CodeList(codes) == [ shape |-> "array", codes |-> codes ]
ProfileEntry(sets) ==
    [ shape |-> "object", lists |-> [ f \in DOMAIN sets |-> CodeList(sets[f]) ] ]

\* lines 190-199: _presenter_maps when presenters.json is missing, unreadable,
\* not JSON or not an object
NoProfiles == [ name \in {} |-> ProfileEntry(EmptySets) ]

\* lines 340-348: the exception the code sets of profile raise, "" = none:
\* m.get of a truthy value that is no dict, set() of a number
Raised(maps, profile) ==
    IF profile = "" \/ profile = "generic" \/ profile \notin DOMAIN maps THEN ""
    ELSE LET m == maps[profile]
         IN  IF m.shape = "null" THEN ""
             ELSE IF m.shape # "object" THEN "AttributeError"
             ELSE IF \E f \in DOMAIN m.lists : m.lists[f].shape = "number"
                  THEN "TypeError"
             ELSE ""

\* lines 339-358: the code sets an iteration decodes with under profile
KeySets(maps, profile) ==
    IF profile # "" /\ profile # "generic"
    THEN IF profile \in DOMAIN maps /\ maps[profile].shape = "object"
         THEN LET m == maps[profile]
              IN  [ f \in DOMAIN EmptySets |->
                      IF m.lists[f].shape = "array" THEN m.lists[f].codes ELSE {} ]
         ELSE EmptySets
    ELSE GenericSets

\* variant: the play codes are still those of the profile before the poll
ActiveSets_mixed(maps, before, after) ==
    [ KeySets(maps, after) EXCEPT !.KEY_PLAY_RAW = KeySets(maps, before).KEY_PLAY_RAW ]

\* line 321 before lines 339-358: every code set of an iteration is taken
\* from the profile that is active after the runtime-state poll
ActiveSets(maps, before, after) == KeySets(maps, after)

\* variant: every code set is tested with the raw code only
Decode_raw_only(key_raw, sets) ==
    LET key == Masked(key_raw)
    IN  IF key = 113 THEN "quit"
        ELSE IF key = 111 THEN "toggleFullscreen"
        ELSE IF key = 102 THEN "toggleFocusAssist"
        ELSE IF key \in { 32, 27 }
             THEN IF key = 27 /\ (27 \in sets.KEY_PLAY_RAW \/ key_raw \in sets.KEY_PLAY_RAW)
                  THEN "none"
                  ELSE "togglePauseScroll"
        ELSE IF \/ key_raw \in sets.KEY_LEFT_RAW
                \/ key_raw \in sets.KEY_PAGEUP_RAW
                \/ key_raw \in sets.KEY_PREV_ASCII
             THEN "previous"
        ELSE IF \/ key_raw \in sets.KEY_RIGHT_RAW
                \/ key_raw \in sets.KEY_PAGEDOWN_RAW
                \/ key_raw \in sets.KEY_NEXT_ASCII
             THEN "next"
        ELSE IF key_raw \in sets.KEY_PLAY_RAW \/ key \in { 112, 80 }
             THEN "toggleMode"
        ELSE IF key_raw \in sets.KEY_BLACK_RAW \/ key \in { 98, 66 }
             THEN "toggleBlackout"
        ELSE IF (key = 46 /\ 46 \notin sets.KEY_BLACK_RAW) \/ key \in { 114, 82 }
             THEN "reload"
        ELSE IF key \in { 107, 75 } THEN "toggleDebugLog"
        ELSE "none"

\* lines 360-423: the logical action of one polled event
Decode(key_raw, sets) ==
    LET key == Masked(key_raw)
    IN  IF key = 113 THEN "quit"
        ELSE IF key = 111 THEN "toggleFullscreen"
        ELSE IF key = 102 THEN "toggleFocusAssist"
        ELSE IF key \in { 32, 27 }
             THEN IF key = 27 /\ (27 \in sets.KEY_PLAY_RAW \/ key_raw \in sets.KEY_PLAY_RAW)
                  THEN "none"
                  ELSE "togglePauseScroll"
        ELSE IF \/ key_raw \in sets.KEY_LEFT_RAW
                \/ key_raw \in sets.KEY_PAGEUP_RAW
                \/ key \in sets.KEY_PREV_ASCII
             THEN "previous"
        ELSE IF \/ key_raw \in sets.KEY_RIGHT_RAW
                \/ key_raw \in sets.KEY_PAGEDOWN_RAW
                \/ key \in sets.KEY_NEXT_ASCII
             THEN "next"
        ELSE IF key_raw \in sets.KEY_PLAY_RAW \/ key \in { 112, 80 }
             THEN "toggleMode"
        ELSE IF key_raw \in sets.KEY_BLACK_RAW \/ key \in { 98, 66 }
             THEN "toggleBlackout"
        ELSE IF (key = 46 /\ 46 \notin sets.KEY_BLACK_RAW) \/ key \in { 114, 82 }
             THEN "reload"
        ELSE IF key \in { 107, 75 } THEN "toggleDebugLog"
        ELSE "none"

\* lines 360-416: the condition of the branch of each action, on its own
Match(action, key_raw, sets) ==
    LET key == Masked(key_raw)
    IN  CASE action = "quit" -> key = 113
          [] action = "toggleFullscreen" -> key = 111
          [] action = "toggleFocusAssist" -> key = 102
          [] action = "togglePauseScroll" -> key \in { 32, 27 }
          [] action = "previous" ->
                \/ key_raw \in sets.KEY_LEFT_RAW
                \/ key_raw \in sets.KEY_PAGEUP_RAW
                \/ key \in sets.KEY_PREV_ASCII
          [] action = "next" ->
                \/ key_raw \in sets.KEY_RIGHT_RAW
                \/ key_raw \in sets.KEY_PAGEDOWN_RAW
                \/ key \in sets.KEY_NEXT_ASCII
          [] action = "toggleMode" -> key_raw \in sets.KEY_PLAY_RAW \/ key \in { 112, 80 }
          [] action = "toggleBlackout" -> key_raw \in sets.KEY_BLACK_RAW \/ key \in { 98, 66 }
          [] action = "reload" ->
                (key = 46 /\ 46 \notin sets.KEY_BLACK_RAW) \/ key \in { 114, 82 }
          [] action = "toggleDebugLog" -> key \in { 107, 75 }

\* lines 378-406: all the codes configured for a profile-driven action
CodeSet(action, sets) ==
    CASE action = "previous" ->
            sets.KEY_LEFT_RAW \cup sets.KEY_PAGEUP_RAW \cup sets.KEY_PREV_ASCII
      [] action = "next" ->
            sets.KEY_RIGHT_RAW \cup sets.KEY_PAGEDOWN_RAW \cup sets.KEY_NEXT_ASCII
      [] action = "toggleMode" -> sets.KEY_PLAY_RAW
      [] action = "toggleBlackout" -> sets.KEY_BLACK_RAW

\* the order of the branches of lines 360-416
Priority ==
    << "quit", "toggleFullscreen", "toggleFocusAssist", "togglePauseScroll",
       "previous", "next", "toggleMode", "toggleBlackout", "reload",
       "toggleDebugLog" >>

\* the first action in that order whose branch condition holds
FirstMatch(key_raw, sets) ==
    LET hits == { i \in DOMAIN Priority : Match(Priority[i], key_raw, sets) }
    IN  IF hits = {} THEN "none"
        ELSE Priority[CHOOSE i \in hits : \A j \in hits : i <= j]

-----------------------------------------------------------------------------
(* Environment of a session *)

PlainLine == << "a" >>
DividerLine == Marker

\* line i (0-based) of the script under edit: a, =, =, a, a, =, =, a, ...
ScriptLine(i) == IF i % 4 \in { 1, 2 } THEN DividerLine ELSE PlainLine

\* the script under edit when it is n lines long
Script(n) == [ i \in 1..n |-> ScriptLine(i - 1) ]

\* the contents load_script can find in the script file of a session
ScriptFiles == { Script(n) : n \in 0..MaxLines }

\* lines as an editor can leave them: text, a divider, an indented divider with
\* a title after it, a run of seven '=', a divider that is not at the start
LineSamples ==
    { << "a" >>, << "b" >>, << "c" >>,
      Marker,
      << " ", "\t" >> \o Marker \o << "=", "x" >>,
      Repeat("=", MarkerLen - 1),
      << "a" >> \o Marker }

\* the contents of the script file in a session that only starts and reloads
AnchorScripts == UNION { [ 1..n -> LineSamples ] : n \in 0..MaxAnchorLines }

\* the contents of the script file in a session that stays in page mode
PageScripts ==
    UNION { [ 1..n -> { PlainLine, DividerLine } ] : n \in 0..MaxPageLines }

\* the file after one edit of doc: a line appended, the last line removed, or
\* one line replaced
Edits(doc, kinds, maxlen) ==
    { Append(doc, ln) : ln \in IF Len(doc) < maxlen THEN kinds ELSE {} }
    \cup { SubSeq(doc, 1, Len(doc) - 1) : k \in IF doc # << >> THEN { 0 } ELSE {} }
    \cup { [ doc EXCEPT ![i] = ln ] : i \in 1..Len(doc), ln \in kinds }

\* the scripts of a session whose mode round trips are recorded
ToggleScripts == { Script(n) : n \in (MaxToggleLines - 1)..MaxToggleLines }

\* the contents of the script file of a session in front of a camera
CameraScripts == { Script(n) : n \in 0..MaxCameraLines }

\* sorted(glob(prompts/*.txt)), lines 103 and 409
PromptFiles == << "prompts/a.txt", "prompts/b.txt" >>

\* args.file of line 98: a prompt file or a file elsewhere; "" = not given
CommandLineFiles == { "", "prompts/a.txt", "prompts/b.txt", "talk.txt" }

\* lines 98-106: the file the session loads at its start
StartFile(args_file) ==
    IF args_file # "" THEN args_file ELSE PromptFiles[current_file_idx + 1]

\* lines 411-412: the file the reload handler reads
ReloadFile ==
    PromptFiles[(IF current_file_idx < Len(PromptFiles) THEN current_file_idx ELSE 0) + 1]

\* the profile names the runtime-state file carries
ProfileNames == { "generic" }

\* the raw codes cv2.waitKey(30) returns in the model, -1 = no key:
\* q o space left right enter b r
KeyCodes == { -1, 113, 111, 32, 81, 83, 13, 98, 114 }

\* the raw codes of a session with a presenter remote: those above and
\* f escape p . k < >, left as X11 sends it (65361, low byte 81), '<' and 'q'
\* with a modifier bit (316, 369), page up, page down, F5
PresenterCodes ==
    { -1, 113, 111, 102, 32, 27, 81, 83, 13, 112, 98, 46, 114, 107, 60, 62,
      65361, 316, 369, 65365, 65366, 65474 }

\* a presenters.json entry of a remote whose play button sends Escape and F5,
\* whose black-screen button sends '.', and which pages with page up / down
LogitechSets ==
    [ KEY_BLACK_RAW    |-> { 46 },
      KEY_LEFT_RAW     |-> { 65365 },
      KEY_RIGHT_RAW    |-> { 65366 },
      KEY_PAGEUP_RAW   |-> {},
      KEY_PAGEDOWN_RAW |-> {},
      KEY_PLAY_RAW     |-> { 27, 65474 },
      KEY_PREV_ASCII   |-> {},
      KEY_NEXT_ASCII   |-> {} ]

\* presenters.json as loaded: well-formed; with an entry that is a list; with
\* a code list that is a number
Presenters == [ name \in { "logitech_r800" } |-> ProfileEntry(LogitechSets) ]
PresentersBadEntry ==
    [ name \in { "logitech_r800" } |->
        [ ProfileEntry(EmptySets) EXCEPT !.shape = "array" ] ]
PresentersBadList ==
    [ name \in { "logitech_r800" } |->
        [ ProfileEntry(LogitechSets) EXCEPT
            !.lists.KEY_PLAY_RAW = [ shape |-> "number", codes |-> {} ] ] ]
ConfigSamples == { NoProfiles, Presenters, PresentersBadEntry, PresentersBadList }

\* One poll of runtime_state.json (lines 200-218): the file did not change,
\* json.load fails, the document is not an object, or it is an object; a
\* field is the set of its value, empty when the object does not carry it
Unchanged ==
    [ kind |-> "unchanged", focus_on |-> {}, flip_video |-> {}, presenter_profile |-> {} ]
StateDoc(focus, flip, profile) ==
    [ kind |-> "object", focus_on |-> focus, flip_video |-> flip,
      presenter_profile |-> profile ]
CorruptReads ==
    { [ Unchanged EXCEPT !.kind = k ] : k \in { "unparseable", "not_object" } }

\* the profile names the web UI of a presenter session selects
SelectedNames == { "generic", "logitech_r800", "bogus" }

\* history of the polled events: n counts them, -1 = not recorded
Unrecorded == [ n |-> -1 ]
NoEvent == [ n |-> 0, key_raw |-> -1, action |-> "none", read |-> Unchanged ]

\* what the keyboard and the runtime-state file send
DeskEnv ==
    [ keyboard |-> KeyCodes,
      reads |-> { StateDoc({}, {}, { name }) : name \in ProfileNames } ]
PresenterEnv ==
    [ keyboard |-> PresenterCodes,
      reads |-> { StateDoc({}, {}, { name }) : name \in SelectedNames }
                \cup { StateDoc({ FALSE }, { TRUE }, {}) }
                \cup CorruptReads ]
\* an operator's booth: no key, q, f, space; the web UI writes the focus flag
BoothEnv ==
    [ keyboard |-> { -1, 113, 102, 32 },
      reads |-> { StateDoc({ TRUE }, {}, {}) } ]
Environments == [ desk |-> DeskEnv, presenter |-> PresenterEnv, booth |-> BoothEnv ]

-----------------------------------------------------------------------------
(* The frame part of one loop iteration, teleprompter.py 251-318 *)

\* lines 253-255: the first frame of a session that was not aligned sizes text_y
LayoutY == IF ~layout_initialized THEN fh ELSE text_y

\* variants: the tick ignores the mode; the pause flag; the blackout flag
Ticks_in_page_mode == scrolling /\ ~blackout_on
Ticks_while_paused == ~page_mode /\ ~blackout_on
Ticks_while_black == scrolling /\ ~page_mode

\* lines 315-316
Ticks == scrolling /\ ~page_mode /\ ~blackout_on

\* variant: the frame part does not move the text
TickY_still == LayoutY

TickY == IF Ticks THEN LayoutY - scroll_speed ELSE LayoutY

\* variant: the wrap test is <= 0
Wraps_inclusive == TickY + Len(script_lines) * line_spacing <= 0

\* variant: the wrap waits for one more line to leave the viewport
Wraps_late == TickY + (Len(script_lines) + 1) * line_spacing < 0

\* lines 317-318
Wraps == TickY + Len(script_lines) * line_spacing < 0
FrameY == IF Wraps THEN fh ELSE TickY

\* variants: no upper clamp; a step of two
speed_up_unclamped(s) == s + 1
speed_down_by_two(s) == Max2(s - 2, MinSpeed)

\* lines 382 and 387
speed_down(s) == Max2(s - 1, MinSpeed)
speed_up(s) == Min2(s + 1, MaxSpeed)

\* History of a mode round trip (lines 388-403): stage "paged" with the offset
\* the mode key was handled at while the session is in page mode and no page
\* key or reload followed, stage "back" in the state the second press of the
\* mode key leaves.  Untracked in the sessions that do not record it.
Untracked == [ stage |-> "off", from |-> 0 ]
NoTrip == [ stage |-> "none", from |-> 0 ]
TripAfter(kind) ==
    IF round_trip.stage = "off" THEN round_trip
    ELSE IF kind = "toggleMode"
         THEN IF ~page_mode THEN [ stage |-> "paged", from |-> FrameY ]
              ELSE IF round_trip.stage = "paged"
                   THEN [ stage |-> "back", from |-> round_trip.from ]
                   ELSE NoTrip
    ELSE IF kind = "frame" /\ round_trip.stage = "paged" THEN round_trip
    ELSE NoTrip

-----------------------------------------------------------------------------
(* Camera handle and window, teleprompter.py 107-126, 224-249, 424-427.      *)
(* cap: "none" (no camera), "open", "released"; last: whether the last       *)
(* iteration reached the key poll ("off" = not recorded); focus_failed:      *)
(* history, focus-assist compositing has raised in this session.             *)

\* lines 108-125 of a session without camera
NoCamera ==
    [ cap |-> "none", window |-> "open", frame_count |-> 0, last |-> "off",
      focus_failed |-> FALSE ]

\* lines 226-239 of an iteration that reaches the key poll: a read that
\* succeeds resets the count of failed reads
FrameRead(d) ==
    IF d.cap = "open" \/ d.last # "off"
    THEN [ d EXCEPT !.frame_count = IF d.cap = "open" THEN 0 ELSE @,
                    !.last = IF @ = "off" THEN @ ELSE "polled" ]
    ELSE d

\* variant: the camera is not released
Finally_keeps_camera(d) == [ d EXCEPT !.window = "destroyed" ]

\* lines 424-427
Finally(d) ==
    [ d EXCEPT !.cap = IF @ = "open" THEN "released" ELSE @,
               !.window = "destroyed" ]

\* web_interface.py 61-76: the dashboard after import: no process, no
\* tracked thread, no thread created, no request under way
NoWeb ==
    [ process  |-> [ pid |-> 0, running |-> FALSE ],
      thread   |-> 0,
      status   |-> [ i \in 1..MaxThreads |-> "unborn" ],
      stop     |-> [ i \in 1..MaxThreads |-> FALSE ],
      joining  |-> 0,
      auto     |-> [ pc |-> "idle", t |-> 0 ],
      response |-> "none" ]

-----------------------------------------------------------------------------
(* Session start, teleprompter.py 97-187 *)

\* variant: the session starts at start_y whatever the anchors
StartY_bottom(anchors) == start_y

\* lines 128, 184-186
StartY(anchors) ==
    IF anchors # << >> THEN jump_to_anchor(anchors[1]) ELSE start_y

Init ==
    /\ script_lines \in ScriptFiles
    /\ page_anchors = compute_page_anchors(script_lines)
    /\ page_mode = TRUE
    /\ text_y = StartY(page_anchors)
    /\ layout_initialized = (page_anchors # << >>)
    /\ scroll_speed = InitialSpeed
    /\ scrolling = TRUE
    /\ blackout_on = FALSE
    /\ presenter_profile = "auto"
    /\ pc = "loop"
    /\ fh = frame_height
    /\ script_file = StartFile("")
    /\ round_trip = Untracked
    /\ presenter_maps = NoProfiles
    /\ focus_on = TRUE
    /\ flip_video = FALSE
    /\ env = "desk"
    /\ event = Unrecorded
    /\ device = NoCamera
    /\ web = NoWeb

-----------------------------------------------------------------------------
(* One iteration of the display loop (lines 224-423) per logical action: the *)
(* frame part, the runtime-state poll (prof is the profile name after it: the*)
(* one the file carries, or the old one when the file did not change) and    *)
(* the handler of the polled key.                                            *)

\* variant: a read that fails resets the three values to their defaults
maybe_load_state_resetting(read, cur) ==
    IF read.kind = "unchanged" THEN cur
    ELSE IF read.kind # "object"
         THEN [ focus_on |-> TRUE, flip_video |-> FALSE, presenter_profile |-> "auto" ]
    ELSE [ f \in DOMAIN cur |-> IF read[f] = {} THEN cur[f] ELSE CHOOSE v \in read[f] : TRUE ]

\* lines 200-218: the focus flag, the flip flag and the profile name after
\* one poll; an exception of json.load or data.get leaves all three
maybe_load_state(read, cur) ==
    IF read.kind # "object" THEN cur
    ELSE [ f \in DOMAIN cur |-> IF read[f] = {} THEN cur[f] ELSE CHOOSE v \in read[f] : TRUE ]

\* line 321: the polls an iteration can make, each with the values it
\* leaves; where the events are not recorded a read that changes nothing is
\* the same step as an unchanged file.  Tabulated once.
PollsOf ==
    [ e \in DOMAIN Environments |->
      [ recorded \in BOOLEAN |->
        [ focus \in BOOLEAN |->
          [ flip \in BOOLEAN |->
            [ profile \in SelectedNames \cup ProfileNames \cup { "auto" } |->
                LET cur == [ focus_on |-> focus, flip_video |-> flip,
                             presenter_profile |-> profile ]
                IN  { [ read |-> Unchanged, now |-> cur ] } \cup
                    { poll \in { [ read |-> read, now |-> maybe_load_state(read, cur) ] :
                                    read \in Environments[e].reads } :
                        recorded \/ poll.now # cur } ] ] ] ] ]

Polls == PollsOf[env][event.n >= 0][focus_on][flip_video][presenter_profile]

\* Decode, tabulated once for the configurations, profiles and codes of the
\* model; an exception of lines 340-348 stands for the action
Decoded ==
    [ maps \in ConfigSamples |->
      [ before \in SelectedNames \cup ProfileNames \cup { "auto" } |->
        [ after \in SelectedNames \cup ProfileNames \cup { "auto" } |->
          [ key_raw \in KeyCodes \cup PresenterCodes |->
              IF Raised(maps, after) # "" THEN Raised(maps, after)
              ELSE Decode(key_raw, ActiveSets(maps, before, after)) ] ] ] ]

Iteration(key_raw, poll, action) ==
    /\ pc = "loop"
    /\ event.n < MaxEvents
    /\ Decoded[presenter_maps][presenter_profile][poll.now.presenter_profile][key_raw]
           = action
    /\ presenter_profile' = poll.now.presenter_profile
    /\ flip_video' = poll.now.flip_video
    /\ focus_on' = IF action = "toggleFocusAssist"
                    THEN ~poll.now.focus_on ELSE poll.now.focus_on
    /\ event' = IF event.n < 0 THEN event
                 ELSE [ n |-> event.n + 1, key_raw |-> key_raw,
                        action |-> action, read |-> poll.read ]
    /\ layout_initialized' = TRUE
    /\ UNCHANGED << fh, presenter_maps, env, web >>

\* no key, an unmapped key, or an action on state outside the scroll state
\* (fullscreen, focus assist, key logging)
KeyOther ==
    \E poll \in Polls, key_raw \in Environments[env].keyboard,
       action \in { "none", "toggleFullscreen", "toggleFocusAssist", "toggleDebugLog" } :
        /\ Iteration(key_raw, poll, action)
        /\ device' = FrameRead(device)
        /\ round_trip' = TripAfter("frame")
        /\ script_file' = script_file
        /\ text_y' = FrameY
        /\ UNCHANGED << script_lines, page_anchors, scroll_speed, scrolling,
                        page_mode, blackout_on, pc >>

\* an iteration in which waitKey times out: the frame part alone
KeyNone ==
    \E poll \in Polls :
        /\ Iteration(-1, poll, "none")
        /\ device' = FrameRead(device)
        /\ round_trip' = TripAfter("frame")
        /\ script_file' = script_file
        /\ text_y' = FrameY
        /\ UNCHANGED << script_lines, page_anchors, scroll_speed, scrolling,
                        page_mode, blackout_on, pc >>

\* lines 360-361
KeyQuit ==
    \E poll \in Polls, key_raw \in Environments[env].keyboard :
        /\ Iteration(key_raw, poll, "quit")
        /\ device' = Finally(FrameRead(device))
        /\ round_trip' = TripAfter("frame")
        /\ script_file' = script_file
        /\ text_y' = FrameY
        /\ pc' = "done"
        /\ UNCHANGED << script_lines, page_anchors, scroll_speed, scrolling,
                        page_mode, blackout_on >>

\* lines 370-375
KeyPause ==
    \E poll \in Polls, key_raw \in Environments[env].keyboard :
        /\ Iteration(key_raw, poll, "togglePauseScroll")
        /\ device' = FrameRead(device)
        /\ round_trip' = TripAfter("frame")
        /\ script_file' = script_file
        /\ text_y' = FrameY
        /\ scrolling' = ~scrolling
        /\ UNCHANGED << script_lines, page_anchors, scroll_speed,
                        page_mode, blackout_on, pc >>

\* lines 378-382
KeyPrevious ==
    \E poll \in Polls, key_raw \in Environments[env].keyboard :
        /\ Iteration(key_raw, poll, "previous")
        /\ device' = FrameRead(device)
        /\ round_trip' = TripAfter("page")
        /\ script_file' = script_file
        /\ text_y' = IF page_mode THEN jump_prev_page(page_anchors, FrameY) ELSE FrameY
        /\ scroll_speed' = IF page_mode THEN scroll_speed ELSE speed_down(scroll_speed)
        /\ UNCHANGED << script_lines, page_anchors, scrolling,
                        page_mode, blackout_on, pc >>

\* lines 383-387
KeyNext ==
    \E poll \in Polls, key_raw \in Environments[env].keyboard :
        /\ Iteration(key_raw, poll, "next")
        /\ device' = FrameRead(device)
        /\ round_trip' = TripAfter("page")
        /\ script_file' = script_file
        /\ text_y' = IF page_mode THEN jump_next_page(page_anchors, FrameY) ELSE FrameY
        /\ scroll_speed' = IF page_mode THEN scroll_speed ELSE speed_up(scroll_speed)
        /\ UNCHANGED << script_lines, page_anchors, scrolling,
                        page_mode, blackout_on, pc >>

\* lines 388-403
KeyToggleMode ==
    \E poll \in Polls, key_raw \in Environments[env].keyboard :
        /\ Iteration(key_raw, poll, "toggleMode")
        /\ device' = FrameRead(device)
        /\ round_trip' = TripAfter("toggleMode")
        /\ script_file' = script_file
        /\ page_mode' = ~page_mode
        /\ text_y' = toggle_page_mode(page_anchors, FrameY, ~page_mode)
        /\ UNCHANGED << script_lines, page_anchors, scroll_speed, scrolling,
                        blackout_on, pc >>

\* variant: the blackout key pauses as well
KeyBlackout_pausing ==
    \E poll \in Polls, key_raw \in Environments[env].keyboard :
        /\ Iteration(key_raw, poll, "toggleBlackout")
        /\ device' = FrameRead(device)
        /\ round_trip' = TripAfter("frame")
        /\ script_file' = script_file
        /\ text_y' = FrameY
        /\ blackout_on' = ~blackout_on
        /\ scrolling' = FALSE
        /\ UNCHANGED << script_lines, page_anchors, scroll_speed, page_mode, pc >>

\* lines 404-406
KeyBlackout ==
    \E poll \in Polls, key_raw \in Environments[env].keyboard :
        /\ Iteration(key_raw, poll, "toggleBlackout")
        /\ device' = FrameRead(device)
        /\ round_trip' = TripAfter("frame")
        /\ script_file' = script_file
        /\ text_y' = FrameY
        /\ blackout_on' = ~blackout_on
        /\ UNCHANGED << script_lines, page_anchors, scroll_speed, scrolling,
                        page_mode, pc >>

\* variant: the reload keeps the anchors of the script it replaces
KeyReloadFrom_old_anchors(files) ==
    \E poll \in Polls, key_raw \in Environments[env].keyboard, doc \in files :
        /\ Iteration(key_raw, poll, "reload")
        /\ device' = FrameRead(device)
        /\ round_trip' = TripAfter("reload")
        /\ script_file' = ReloadFile
        /\ script_lines' = doc
        /\ text_y' = fh
        /\ UNCHANGED << page_anchors, scroll_speed, scrolling, page_mode,
                        blackout_on, pc >>

\* lines 407-414 with a readable first file in the prompt directory, whose
\* content is one of files
KeyReloadFrom(files) ==
    \E poll \in Polls, key_raw \in Environments[env].keyboard, doc \in files :
        /\ Iteration(key_raw, poll, "reload")
        /\ device' = FrameRead(device)
        /\ round_trip' = TripAfter("reload")
        /\ script_file' = ReloadFile
        /\ script_lines' = doc
        /\ text_y' = fh
        /\ page_anchors' = compute_page_anchors(doc)
        /\ UNCHANGED << scroll_speed, scrolling, page_mode, blackout_on, pc >>

KeyReload == KeyReloadFrom(ScriptFiles)

\* lines 409-410: the prompt directory holds no .txt file
KeyReloadNoFiles ==
    \E poll \in Polls, key_raw \in Environments[env].keyboard :
        /\ Iteration(key_raw, poll, "reload")
        /\ device' = FrameRead(device)
        /\ round_trip' = TripAfter("frame")
        /\ script_file' = script_file
        /\ text_y' = FrameY
        /\ UNCHANGED << script_lines, page_anchors, scroll_speed, scrolling,
                        page_mode, blackout_on, pc >>

\* lines 412, 44-48: open() of the listed file raises OSError (the file was
\* removed after the glob, or cannot be read); nothing between line 412 and
\* the finally of line 424 catches it, so the loop is left
KeyReloadFails ==
    \E poll \in Polls, key_raw \in Environments[env].keyboard :
        /\ Iteration(key_raw, poll, "reload")
        /\ device' = Finally(FrameRead(device))
        /\ round_trip' = TripAfter("frame")
        /\ script_file' = script_file
        /\ text_y' = FrameY
        /\ pc' = "OSError"
        /\ UNCHANGED << script_lines, page_anchors, scroll_speed, scrolling,
                        page_mode, blackout_on >>

\* lines 340-348: building the code sets of the active profile raises; the
\* frame was drawn, no key is handled, the loop is left
KeyDecodeFails ==
    \E poll \in Polls, key_raw \in Environments[env].keyboard,
       raised \in { "AttributeError", "TypeError" } :
        /\ Iteration(key_raw, poll, raised)
        /\ device' = Finally(FrameRead(device))
        /\ round_trip' = TripAfter("frame")
        /\ script_file' = script_file
        /\ text_y' = FrameY
        /\ pc' = raised
        /\ UNCHANGED << script_lines, page_anchors, scroll_speed, scrolling,
                        page_mode, blackout_on >>

Next ==
    \/ KeyOther
    \/ KeyPause
    \/ KeyPrevious
    \/ KeyNext
    \/ KeyToggleMode
    \/ KeyBlackout
    \/ KeyReload
    \/ KeyReloadNoFiles

Spec == Init /\ [][Next]_vars

-----------------------------------------------------------------------------
(* Sessions that only start and reload: the script model on its own.  The    *)
(* state before line 155 has no anchors yet; SessionStart is lines 155-187.  *)

AnchorInit ==
    /\ script_lines \in AnchorScripts
    /\ page_anchors = << >>
    /\ page_mode = TRUE
    /\ text_y = start_y
    /\ layout_initialized = FALSE
    /\ scroll_speed = InitialSpeed
    /\ scrolling = TRUE
    /\ blackout_on = FALSE
    /\ presenter_profile = "auto"
    /\ pc = "start"
    /\ fh = frame_height
    /\ script_file = StartFile("")
    /\ round_trip = Untracked
    /\ presenter_maps = NoProfiles
    /\ focus_on = TRUE
    /\ flip_video = FALSE
    /\ env = "desk"
    /\ event = Unrecorded
    /\ device = NoCamera
    /\ web = NoWeb

SessionStart ==
    /\ pc = "start"
    /\ page_anchors' = compute_page_anchors(script_lines)
    /\ text_y' = IF page_mode THEN StartY(compute_page_anchors(script_lines)) ELSE text_y
    /\ layout_initialized' = (page_mode /\ compute_page_anchors(script_lines) # << >>)
    /\ pc' = "loop"
    /\ UNCHANGED << script_lines, scroll_speed, scrolling, page_mode, blackout_on,
                    presenter_profile, fh, script_file, round_trip,
                    presenter_maps, focus_on, flip_video, env, event,
                    device, web >>

AnchorReload == KeyReloadFrom(Edits(script_lines, LineSamples, MaxAnchorLines))

AnchorNext == SessionStart \/ AnchorReload

AnchorSpec == AnchorInit /\ [][AnchorNext]_vars

-----------------------------------------------------------------------------
(* Sessions that stay in page mode: the operator pages, pauses, blanks the   *)
(* screen and reloads the edited script, and never presses the mode key.     *)

PagedInit ==
    /\ script_lines \in PageScripts
    /\ page_anchors = compute_page_anchors(script_lines)
    /\ page_mode = TRUE
    /\ text_y = StartY(page_anchors)
    /\ layout_initialized = (page_anchors # << >>)
    /\ scroll_speed = InitialSpeed
    /\ scrolling = TRUE
    /\ blackout_on = FALSE
    /\ presenter_profile = "auto"
    /\ pc = "loop"
    /\ fh = frame_height
    /\ script_file \in { StartFile(args_file) : args_file \in CommandLineFiles }
    /\ round_trip = Untracked
    /\ presenter_maps = NoProfiles
    /\ focus_on = TRUE
    /\ flip_video = FALSE
    /\ env = "desk"
    /\ event = Unrecorded
    /\ device = NoCamera
    /\ web = NoWeb

PagedReload ==
    KeyReloadFrom(Edits(script_lines, { PlainLine, DividerLine }, MaxPageLines))

PagedNext ==
    \/ KeyOther
    \/ KeyPause
    \/ KeyPrevious
    \/ KeyNext
    \/ KeyBlackout
    \/ PagedReload
    \/ KeyReloadFails

PagedSpec == PagedInit /\ [][PagedNext]_vars

-----------------------------------------------------------------------------
(* Sessions in front of a camera whose frames are CameraHeight high: the     *)
(* whole loop on short scripts.                                              *)

CameraInit ==
    /\ script_lines \in CameraScripts
    /\ page_anchors = compute_page_anchors(script_lines)
    /\ page_mode = TRUE
    /\ text_y = StartY(page_anchors)
    /\ layout_initialized = (page_anchors # << >>)
    /\ scroll_speed = InitialSpeed
    /\ scrolling = TRUE
    /\ blackout_on = FALSE
    /\ presenter_profile = "auto"
    /\ pc = "loop"
    /\ fh = CameraHeight
    /\ script_file = StartFile("")
    /\ round_trip = Untracked
    /\ presenter_maps = NoProfiles
    /\ focus_on = TRUE
    /\ flip_video = FALSE
    /\ env = "desk"
    /\ event = Unrecorded
    /\ device = NoCamera
    /\ web = NoWeb

CameraReload == KeyReloadFrom(CameraScripts)

CameraNext ==
    \/ KeyOther
    \/ KeyPause
    \/ KeyPrevious
    \/ KeyNext
    \/ KeyToggleMode
    \/ KeyBlackout
    \/ CameraReload
    \/ KeyReloadNoFiles

CameraSpec == CameraInit /\ [][CameraNext]_vars

-----------------------------------------------------------------------------
(* Sessions that record the mode round trips: the operator scrolls, changes  *)
(* the speed, pauses, pages and presses the mode key; the script stays.      *)

ToggleInit ==
    /\ script_lines \in ToggleScripts
    /\ page_anchors = compute_page_anchors(script_lines)
    /\ page_mode = TRUE
    /\ text_y = StartY(page_anchors)
    /\ layout_initialized = (page_anchors # << >>)
    /\ scroll_speed = InitialSpeed
    /\ scrolling = TRUE
    /\ blackout_on = FALSE
    /\ presenter_profile = "auto"
    /\ pc = "loop"
    /\ fh = frame_height
    /\ script_file = StartFile("")
    /\ round_trip = NoTrip
    /\ presenter_maps = NoProfiles
    /\ focus_on = TRUE
    /\ flip_video = FALSE
    /\ env = "desk"
    /\ event = Unrecorded
    /\ device = NoCamera
    /\ web = NoWeb

ToggleNext ==
    \/ KeyOther
    \/ KeyPause
    \/ KeyPrevious
    \/ KeyNext
    \/ KeyToggleMode

ToggleSpec == ToggleInit /\ [][ToggleNext]_vars

-----------------------------------------------------------------------------
(* Replay: a session left alone in scroll mode, unpaused, with the screen    *)
(* on, from the state the mode key leaves at any page and any speed.  The    *)
(* loop never blocks (waitKey returns after 30 ms), so iterations keep       *)
(* coming: weak fairness of KeyNone.                                         *)

ReplayInit ==
    /\ script_lines \in ScriptFiles
    /\ page_anchors = compute_page_anchors(script_lines)
    /\ page_mode = FALSE
    /\ text_y \in { jump_to_anchor(a) : a \in Range(page_anchors) \cup { 0 } }
    /\ layout_initialized = TRUE
    /\ scroll_speed \in MinSpeed..MaxSpeed
    /\ scrolling = TRUE
    /\ blackout_on = FALSE
    /\ presenter_profile \in ProfileNames
    /\ pc = "loop"
    /\ fh = frame_height
    /\ script_file = StartFile("")
    /\ round_trip = Untracked
    /\ presenter_maps = NoProfiles
    /\ focus_on = TRUE
    /\ flip_video = FALSE
    /\ env = "desk"
    /\ event = Unrecorded
    /\ device = NoCamera
    /\ web = NoWeb

ReplayNext == KeyNone

ReplaySpec == ReplayInit /\ [][ReplayNext]_vars /\ WF_vars(KeyNone)

-----------------------------------------------------------------------------
(* Sessions with a presenter remote and the web UI writing the runtime      *)
(* state: the first MaxEvents iterations of the loop, each recorded with    *)
(* the poll it made and the key it read, under every presenters.json of     *)
(* ConfigSamples.                                                           *)

ProfileInit ==
    /\ script_lines = Script(MaxLines)
    /\ page_anchors = compute_page_anchors(script_lines)
    /\ page_mode = TRUE
    /\ text_y = StartY(page_anchors)
    /\ layout_initialized = (page_anchors # << >>)
    /\ scroll_speed = InitialSpeed
    /\ scrolling = TRUE
    /\ blackout_on = FALSE
    /\ presenter_profile = "auto"
    /\ pc = "loop"
    /\ fh = frame_height
    /\ script_file = StartFile("")
    /\ round_trip = Untracked
    /\ presenter_maps \in ConfigSamples
    /\ focus_on = TRUE
    /\ flip_video = FALSE
    /\ env = "presenter"
    /\ event = NoEvent
    /\ device = NoCamera
    /\ web = NoWeb

\* the script file is not edited during these sessions
ProfileReload == KeyReloadFrom({ Script(MaxLines) })

ProfileNext ==
    \/ KeyOther
    \/ KeyQuit
    \/ KeyPause
    \/ KeyPrevious
    \/ KeyNext
    \/ KeyToggleMode
    \/ KeyBlackout
    \/ ProfileReload
    \/ KeyDecodeFails

ProfileSpec == ProfileInit /\ [][ProfileNext]_vars

-----------------------------------------------------------------------------
(* Sessions in front of a camera whose reads can fail and whose focus-assist *)
(* compositing can raise: one line of script, the keys of BoothEnv.          *)

\* lines 226-237: cap.read() fails for at most the max_failed_reads-th time
\* in a row; the iteration sleeps and continues with the next one, before
\* the frame is sized, drawn, ticked and before the state and key polls
CameraReadFails ==
    /\ pc = "loop"
    /\ device.cap = "open"
    /\ device.frame_count + 1 <= max_failed_reads
    /\ device' = [ device EXCEPT !.frame_count = @ + 1,
                                 !.last = IF @ = "off" THEN @ ELSE "skipped" ]
    /\ UNCHANGED << script_lines, page_anchors, text_y, scroll_speed, scrolling,
                    page_mode, blackout_on, layout_initialized, presenter_profile,
                    pc, fh, script_file, round_trip, presenter_maps, focus_on,
                    flip_video, env, event, web >>

\* lines 229-234, 241, 424-427: the failed read that exceeds
\* max_failed_reads releases the camera and falls through to
\* cv2.rotate(frame, ...) of line 241 with the frame of the failed read,
\* None: cv2.error leaves the loop through the finally clause
CameraFallbackFails ==
    /\ pc = "loop"
    /\ device.cap = "open"
    /\ device.frame_count + 1 > max_failed_reads
    /\ device' = Finally([ device EXCEPT !.frame_count = @ + 1,
                                         !.cap = "released",
                                         !.last = IF @ = "off" THEN @ ELSE "skipped" ])
    /\ pc' = "cv2.error"
    /\ UNCHANGED << script_lines, page_anchors, text_y, scroll_speed, scrolling,
                    page_mode, blackout_on, layout_initialized, presenter_profile,
                    fh, script_file, round_trip, presenter_maps, focus_on,
                    flip_video, env, event, web >>

\* lines 264-277: focus-assist compositing raises in an iteration whose key
\* is handled outside the scroll state; focus_on is FALSE when the runtime
\* state is polled (line 321) and the key is handled (line 368)
FocusAssistFails ==
    /\ focus_on
    /\ ~blackout_on
    /\ \E poll \in PollsOf[env][event.n >= 0][FALSE][flip_video][presenter_profile],
          key_raw \in Environments[env].keyboard,
          action \in { "none", "toggleFullscreen", "toggleFocusAssist", "toggleDebugLog" } :
            /\ Iteration(key_raw, poll, action)
            /\ device' = [ FrameRead(device) EXCEPT !.focus_failed = TRUE ]
            /\ round_trip' = TripAfter("frame")
            /\ script_file' = script_file
            /\ text_y' = FrameY
            /\ UNCHANGED << script_lines, page_anchors, scroll_speed, scrolling,
                            page_mode, blackout_on, pc >>

DeviceInit ==
    /\ script_lines = Script(1)
    /\ page_anchors = compute_page_anchors(script_lines)
    /\ page_mode = TRUE
    /\ text_y = StartY(page_anchors)
    /\ layout_initialized = (page_anchors # << >>)
    /\ scroll_speed = InitialSpeed
    /\ scrolling = TRUE
    /\ blackout_on = FALSE
    /\ presenter_profile = "auto"
    /\ pc = "loop"
    /\ fh = CameraHeight
    /\ script_file = StartFile("")
    /\ round_trip = Untracked
    /\ presenter_maps = NoProfiles
    /\ focus_on = TRUE
    /\ flip_video = FALSE
    /\ env = "booth"
    /\ event = Unrecorded
    /\ device = [ NoCamera EXCEPT !.cap = "open", !.last = "none" ]
    /\ web = NoWeb

DeviceNext ==
    \/ KeyOther
    \/ KeyPause
    \/ KeyQuit
    \/ CameraReadFails
    \/ CameraFallbackFails
    \/ FocusAssistFails

DeviceSpec == DeviceInit /\ [][DeviceNext]_vars

-----------------------------------------------------------------------------
(* The dashboard, web_interface.py 61-76, 507-575, 807-823, 1079-1196.
   Flask serves each request on a thread of its own (line 1443); a block
   under recording_lock is one step. *)

session == << script_lines, page_anchors, text_y, scroll_speed, scrolling,
              page_mode, blackout_on, layout_initialized, presenter_profile,
              pc, fh, script_file, round_trip, presenter_maps, focus_on,
              flip_video, env, event, device >>

\* threading.Thread.is_alive: started and not yet returned
is_alive(w, i) == i # 0 /\ w.status[i] \in { "started", "recording" }

\* threading.Thread(...): the next thread object
NewThread(w) ==
    CHOOSE i \in 1..MaxThreads :
        /\ w.status[i] = "unborn"
        /\ \A j \in 1..MaxThreads : w.status[j] = "unborn" => i <= j

Devices == { "", "/dev/video0", "usb:001,004" }

\* lines 1079-1165; the whole of 1093-1164 is under the lock
api_start_record(dev, liveview) ==
    /\ \/ dev = ""
       \/ is_alive(web, web.thread)
       \/ dev = "usb:001,004" /\ ~liveview
       \/ \E i \in 1..MaxThreads : web.status[i] = "unborn"
    /\ web' =
         IF dev = "" THEN [ web EXCEPT !.response = "device required" ]
         ELSE IF is_alive(web, web.thread)
         THEN [ web EXCEPT !.response = "recording already active" ]
         ELSE IF dev = "usb:001,004" /\ ~liveview
         THEN [ web EXCEPT !.response = "failed to enable live view" ]
         ELSE LET t == NewThread(web)
              IN  [ web EXCEPT !.thread = t,
                               !.stop[t] = FALSE,
                               !.status[t] = "started",
                               !.response = "started" ]
    /\ UNCHANGED session

\* lines 1169-1176: the first locked block of api_stop_record
api_stop_record ==
    /\ web.joining = 0
    /\ web' =
         IF ~is_alive(web, web.thread)
         THEN [ web EXCEPT !.response = "no active recording" ]
         ELSE [ web EXCEPT !.stop[web.thread] = TRUE,
                           !.joining = web.thread ]
    /\ UNCHANGED session

\* lines 1177-1185: join(timeout=5) has returned, the thread dead or not
api_stop_record_joined ==
    /\ web.joining # 0
    /\ web' = [ web EXCEPT !.thread = 0,
                           !.joining = 0,
                           !.response = IF is_alive(web, web.joining)
                                        THEN "stopped, forced"
                                        ELSE "stopped" ]
    /\ UNCHANGED session

\* lines 1187-1196
api_force_stop ==
    /\ web' = [ web EXCEPT !.stop = IF is_alive(web, web.thread)
                                    THEN [ @ EXCEPT ![web.thread] = TRUE ]
                                    ELSE @,
                           !.thread = 0,
                           !.response = "forced_cleared" ]
    /\ UNCHANGED session

\* lines 507-552: the request up to the recording step
start_teleprompter(exists, auto_record) ==
    /\ exists => web.process.pid < MaxProcesses
    /\ (exists /\ auto_record) => web.auto.pc = "idle"
    /\ web' =
         IF ~exists
         THEN [ web EXCEPT !.process.running = FALSE,
                           !.response = "not found" ]
         ELSE [ web EXCEPT !.process = [ pid |-> @.pid + 1, running |-> TRUE ],
                           !.auto = IF auto_record
                                    THEN [ pc |-> "check", t |-> 0 ] ELSE @,
                           !.response = "Teleprompter started" ]
    /\ UNCHANGED session

\* lines 559-561: the locked read of the tracked thread
auto_record_check ==
    /\ web.auto.pc = "check"
    /\ web' = [ web EXCEPT !.auto.pc = IF is_alive(web, web.thread)
                                       THEN "idle" ELSE "checked" ]
    /\ UNCHANGED session

\* lines 562-571: the thread object and the locked update
auto_record_update ==
    /\ web.auto.pc = "checked"
    /\ \E i \in 1..MaxThreads : web.status[i] = "unborn"
    /\ LET t == NewThread(web)
       IN  web' = [ web EXCEPT !.thread = t,
                               !.stop[t] = FALSE,
                               !.status[t] = "new",
                               !.auto = [ pc |-> "registered", t |-> t ] ]
    /\ UNCHANGED session

\* line 572: t.start(), outside the lock
auto_record_start ==
    /\ web.auto.pc = "registered"
    /\ web' = [ web EXCEPT !.status[web.auto.t] = "started",
                           !.auto = [ pc |-> "idle", t |-> 0 ],
                           !.response = "Auto recording started" ]
    /\ UNCHANGED session

\* lines 807-818: the capture opens
recording_thread_opens(i) ==
    /\ web.status[i] = "started"
    /\ web' = [ web EXCEPT !.status[i] = "recording" ]
    /\ UNCHANGED session

\* lines 811-813: the capture does not open
recording_thread_fails(i) ==
    /\ web.status[i] = "started"
    /\ web' = [ web EXCEPT !.status[i] = "dead" ]
    /\ UNCHANGED session

\* lines 819-825: the loop sees the stop event
recording_thread_stops(i) ==
    /\ web.status[i] = "recording"
    /\ web.stop[i]
    /\ web' = [ web EXCEPT !.status[i] = "dead" ]
    /\ UNCHANGED session

\* the teleprompter process ends by itself (teleprompter.py 424-427)
process_exits ==
    /\ web.process.running
    /\ web' = [ web EXCEPT !.process.running = FALSE ]
    /\ UNCHANGED session

WebInit ==
    /\ script_lines = Script(1)
    /\ page_anchors = compute_page_anchors(script_lines)
    /\ page_mode = TRUE
    /\ text_y = StartY(page_anchors)
    /\ layout_initialized = (page_anchors # << >>)
    /\ scroll_speed = InitialSpeed
    /\ scrolling = TRUE
    /\ blackout_on = FALSE
    /\ presenter_profile = "auto"
    /\ pc = "loop"
    /\ fh = frame_height
    /\ script_file = StartFile("")
    /\ round_trip = Untracked
    /\ presenter_maps = NoProfiles
    /\ focus_on = TRUE
    /\ flip_video = FALSE
    /\ env = "desk"
    /\ event = Unrecorded
    /\ device = NoCamera
    /\ web = NoWeb

WebNext ==
    \/ \E dev \in Devices, liveview \in BOOLEAN : api_start_record(dev, liveview)
    \/ api_stop_record
    \/ api_stop_record_joined
    \/ api_force_stop
    \/ \E exists \in BOOLEAN, auto_record \in BOOLEAN :
           start_teleprompter(exists, auto_record)
    \/ auto_record_check
    \/ auto_record_update
    \/ auto_record_start
    \/ \E i \in 1..MaxThreads : recording_thread_opens(i)
    \/ \E i \in 1..MaxThreads : recording_thread_fails(i)
    \/ \E i \in 1..MaxThreads : recording_thread_stops(i)
    \/ process_exits

WebSpec == WebInit /\ [][WebNext]_vars

-----------------------------------------------------------------------------
(* Properties *)

\* C1: in every state the scroll speed is an integer in [1, 20], and in
\* FreeScroll next at speed 20 and previous at speed 1 leave the speed as it is.
C1_SpeedClamp ==
    [][ /\ scroll_speed \in 1..20
        /\ scroll_speed' \in 1..20
        /\ (KeyNext /\ ~page_mode /\ scroll_speed = 20 => scroll_speed' = 20)
        /\ (KeyPrevious /\ ~page_mode /\ scroll_speed = 1 => scroll_speed' = 1) ]_vars

\* FreeScroll at the upper speed bound, which only repeated next reaches
C1_SpeedAtBound == ~page_mode /\ scrolling /\ scroll_speed = 20

\* C2: after session start and after every reload, page_anchors is strictly
\* increasing, holds only valid indices of script_lines, starts with 0 when
\* the script is non-empty and is empty when the script is empty.
C2_AnchorsWellFormed ==
    pc = "loop" =>
        /\ \A i \in 1..Len(page_anchors) :
               page_anchors[i] \in 0..(Len(script_lines) - 1)
        /\ \A i \in 1..(Len(page_anchors) - 1) : page_anchors[i] < page_anchors[i + 1]
        /\ (script_lines # << >> => page_anchors # << >> /\ page_anchors[1] = 0)
        /\ (script_lines = << >> => page_anchors = << >>)

\* a reloaded script with two pages after the first
C2_ReloadedThreePages == pc = "loop" /\ text_y = fh /\ Len(page_anchors) = 3

\* C3 as stated: for every line sequence the anchors are exactly 0 together
\* with, for each divider at index i, i + 1 if that is a line and else i,
\* without duplicates and in increasing order.
C3_AnchorsExactEverySequence ==
    pc = "loop" =>
        LET n == Len(script_lines)
            divider(i) ==
                \E k \in 0..Len(script_lines[i + 1]) :
                    /\ \A j \in 1..k : script_lines[i + 1][j] \in { " ", "\t" }
                    /\ Len(script_lines[i + 1]) >= k + 8
                    /\ \A j \in (k + 1)..(k + 8) : script_lines[i + 1][j] = "="
            expected ==
                { 0 } \cup { IF i + 1 < n THEN i + 1 ELSE i :
                                 i \in { d \in 0..(n - 1) : divider(d) } }
        IN  /\ { page_anchors[i] : i \in 1..Len(page_anchors) } = expected
            /\ \A i \in 1..(Len(page_anchors) - 1) : page_anchors[i] < page_anchors[i + 1]

\* C3, amended: the same for every non-empty line sequence (an empty script
\* has no anchors); ["a","========","b","c"] yields [0, 2] and
\* ["a","========"] yields [0, 1].
C3_AnchorsExact ==
    /\ script_lines = << >> /\ pc = "loop" => page_anchors = << >>
    /\ script_lines # << >> => C3_AnchorsExactEverySequence
    /\ script_lines = << << "a" >>, Marker, << "b" >>, << "c" >> >> /\ pc = "loop"
           => page_anchors = << 0, 2 >>
    /\ script_lines = << << "a" >>, Marker >> /\ pc = "loop"
           => page_anchors = << 0, 1 >>

\* the four-line example after its anchors were computed
C3_ExampleLoaded ==
    /\ pc = "loop"
    /\ script_lines = << << "a" >>, Marker, << "b" >>, << "c" >> >>
    /\ page_anchors = << 0, 2 >>

\* C4: whenever the offset is 120 - a*60 for an anchor a, it is the offset
\* jump_to_anchor(a) sets and get_current_top_index() returns exactly a.
C4_JumpTopIndexRoundTrip ==
    \A i \in 1..Len(page_anchors) :
        text_y = 120 - page_anchors[i] * 60 =>
            /\ text_y = jump_to_anchor(page_anchors[i])
            /\ get_current_top_index(text_y) = page_anchors[i]

\* page mode after a jump to an anchor three or more lines down
C4_JumpedDown ==
    /\ page_mode
    /\ \E i \in 1..Len(page_anchors) :
           page_anchors[i] >= 3 /\ text_y = 120 - page_anchors[i] * 60

\* C5: in Paged mode next jumps to the smallest anchor strictly greater than
\* topIndex + 1; with no such anchor (as on the last anchor) offset, mode, speed
\* and paused are unchanged.
C5_PagedNext ==
    [][ KeyNext /\ page_mode =>
          LET top == get_current_top_index(text_y)
              after == { page_anchors[i] : i \in 1..Len(page_anchors) }
                           \cap { a \in 0..(Len(script_lines) + 1) : a > top + 1 }
          IN  IF after = {}
              THEN UNCHANGED << text_y, page_mode, scroll_speed, scrolling >>
              ELSE /\ \E a \in after :
                          /\ \A b \in after : a <= b
                          /\ text_y' = 120 - a * 60
                          /\ get_current_top_index(text_y') = a
                   /\ UNCHANGED << page_mode, scroll_speed, scrolling >> ]_vars

\* page mode on the second of three anchors, where next found the nearer of
\* two later anchors
C5_NextTookNearest ==
    /\ page_mode
    /\ Len(page_anchors) = 3
    /\ page_anchors[2] > 1
    /\ text_y = 120 - page_anchors[2] * 60

\* C6: in Paged mode previous jumps to the largest anchor strictly less than
\* topIndex; with no such anchor (as at topIndex 0) offset, mode, speed and
\* paused are unchanged.
C6_PagedPrevious ==
    [][ KeyPrevious /\ page_mode =>
          LET top == get_current_top_index(text_y)
              before == { page_anchors[i] : i \in 1..Len(page_anchors) }
                            \cap { a \in 0..(Len(script_lines) + 1) : a < top }
          IN  IF before = {}
              THEN UNCHANGED << text_y, page_mode, scroll_speed, scrolling >>
              ELSE /\ \E a \in before :
                          /\ \A b \in before : b <= a
                          /\ text_y' = 120 - a * 60
                          /\ get_current_top_index(text_y') = a
                   /\ UNCHANGED << page_mode, scroll_speed, scrolling >> ]_vars

\* page mode back on the first anchor of a script with several pages, blanked
\* and paused on the way
C6_BackOnFirstPage ==
    /\ page_mode
    /\ Len(page_anchors) = 3
    /\ text_y = 120
    /\ ~scrolling
    /\ blackout_on

\* C7: with anchors [0, 4] a session started in Paged mode has topIndex 0;
\* next gives topIndex 4; next again leaves topIndex 4; previous gives 0.
C7_EndToEndPaging ==
    /\ page_anchors = << 0, 4 >> => page_mode /\ get_current_top_index(text_y) = 0
    /\ [][ page_anchors = << 0, 4 >> /\ page_mode =>
             /\ KeyNext /\ get_current_top_index(text_y) = 0
                    => get_current_top_index(text_y') = 4
             /\ KeyNext /\ get_current_top_index(text_y) = 4
                    => get_current_top_index(text_y') = 4
             /\ KeyPrevious /\ get_current_top_index(text_y) = 4
                    => get_current_top_index(text_y') = 0 ]_vars

\* the second page of the [0, 4] script
C7_OnSecondPage ==
    /\ page_mode
    /\ page_anchors = << 0, 4 >>
    /\ get_current_top_index(text_y) = 4

\* C8: previous and next leave mode, paused and blackout unchanged; in Paged
\* mode they leave the speed unchanged; in FreeScroll they leave the offset of
\* the frame unchanged and change the speed by exactly 1, or not at all at the
\* clamp bound.
C8_PrevNextByMode ==
    [][ KeyPrevious \/ KeyNext =>
          /\ UNCHANGED << page_mode, scrolling, blackout_on >>
          /\ page_mode => scroll_speed' = scroll_speed
          /\ ~page_mode => text_y' = FrameY
          /\ KeyNext /\ ~page_mode =>
                 scroll_speed' = IF scroll_speed = 20 THEN 20 ELSE scroll_speed + 1
          /\ KeyPrevious /\ ~page_mode =>
                 scroll_speed' = IF scroll_speed = 1 THEN 1 ELSE scroll_speed - 1 ]_vars

\* FreeScroll slowed below the initial speed while blanked and paused
C8_SlowedDown == ~page_mode /\ scroll_speed = 1 /\ blackout_on /\ ~scrolling

\* C9: toggleMode in FreeScroll sets mode = Paged and offset = 120 - c*60, c
\* the greatest anchor <= the topIndex of the pre-switch offset (0 if none);
\* speed, paused and blackout are unchanged.
C9_ToggleIntoPaged ==
    [][ KeyToggleMode /\ ~page_mode =>
          LET top == get_current_top_index(FrameY)
              upto == { page_anchors[i] : i \in 1..Len(page_anchors) }
                          \cap { a \in 0..(Len(script_lines) + 1) : a <= top }
              c == IF upto = {} THEN 0 ELSE CHOOSE a \in upto : \A b \in upto : b <= a
          IN  /\ page_mode'
              /\ text_y' = 120 - c * 60
              /\ UNCHANGED << scroll_speed, scrolling, blackout_on >> ]_vars

\* page mode on the last of three anchors, one line after the second: next
\* never jumps there, only the switch into page mode does
C9_AlignedToLastPage ==
    /\ page_mode
    /\ Len(page_anchors) = 3
    /\ page_anchors[3] = page_anchors[2] + 1
    /\ text_y = 120 - page_anchors[3] * 60

\* C10, for a non-empty script: toggleMode in Paged sets mode = FreeScroll,
\* keeps topIndex, sets offset = 120 - topIndex*60, and that offset is the one
\* Paged mode was showing.
C10_ToggleOutKeepsOffset ==
    [][ KeyToggleMode /\ page_mode /\ script_lines # << >> =>
          /\ ~page_mode'
          /\ get_current_top_index(text_y') = get_current_top_index(text_y)
          /\ text_y' = 120 - get_current_top_index(text_y) * 60
          /\ text_y' = text_y ]_vars

\* C11: a round trip FreeScroll -> Paged -> FreeScroll with no page key and
\* no reload in between leaves the offset within line_spacing/2 of the
\* offset the first press of the mode key was handled at.
C11_RoundTripWithinHalfLine ==
    round_trip.stage = "back" =>
        /\ 2 * (text_y - round_trip.from) <= line_spacing
        /\ 2 * (round_trip.from - text_y) <= line_spacing

\* C11 as amended: the round trip leaves the offset at the start of the page
\* the first press was handled on, 120 - c*60 with c the greatest anchor not
\* above the top index of that offset; that is within line_spacing/2 of the
\* first offset when the top line was itself an anchor and not clamped.
C11_RoundTripToPageStart ==
    round_trip.stage = "back" =>
        LET y0 == round_trip.from
            top == get_current_top_index(y0)
            below == { a \in Range(page_anchors) : a <= top }
            c == IF below = {} THEN 0 ELSE CHOOSE a \in below : \A b \in below : b <= a
        IN  /\ ~page_mode
            /\ text_y = 120 - c * 60
            /\ (c = top /\ y0 <= 150) =>
                   (text_y - y0 <= 30 /\ y0 - text_y <= 30)

C11_BackFromLaterPage ==
    /\ round_trip.stage = "back"
    /\ ~page_mode
    /\ text_y = 0
    /\ round_trip.from < -line_spacing

\* C12: in scroll mode, unpaused and not blacked out, an iteration without a
\* key moves the offset up by the speed and then resets it to the frame
\* height exactly when offset + len(lines) * 60 < 0; nothing else changes.
C12_FreeScrollFrame ==
    [][ (KeyNone /\ ~page_mode /\ scrolling /\ ~blackout_on) =>
            /\ text_y' = IF (text_y - scroll_speed) + Len(script_lines) * 60 < 0
                          THEN fh
                          ELSE text_y - scroll_speed
            /\ UNCHANGED << page_mode, scroll_speed, scrolling, blackout_on,
                            script_lines, page_anchors >> ]_vars

C12_AboutToWrap ==
    /\ ~page_mode /\ scrolling /\ ~blackout_on
    /\ script_lines # << >>
    /\ text_y + Len(script_lines) * 60 < scroll_speed
    /\ text_y + Len(script_lines) * 60 >= 0

\* C13: in page mode an iteration without a key leaves the offset unchanged,
\* in every reachable state and for every script, the empty one included.
C13_PagedFrameKeepsOffset ==
    [][ (KeyNone /\ page_mode) => text_y' = text_y ]_vars

\* C13 as amended: in page mode an iteration without a key neither ticks nor
\* wraps; it leaves the offset unchanged, except that the first frame of a
\* session that started without anchors sets the offset to the frame height.
C13_PagedFrameNoTick ==
    [][ (KeyNone /\ page_mode) =>
            text_y' = IF layout_initialized THEN text_y ELSE fh ]_vars

C13_EmptyScriptSized ==
    /\ page_mode
    /\ layout_initialized
    /\ script_lines = << >>
    /\ text_y = fh
    /\ text_y # start_y

\* C14: left alone in scroll mode, unpaused and not blacked out, the session
\* wraps again and again: from every state a later iteration finds
\* offset + len(lines) * 60 < 0 after its tick and resets the offset to the
\* frame height, for every script length and every speed 1..20.
C14_ReplayForever ==
    []<><< /\ (text_y - scroll_speed) + Len(script_lines) * 60 < 0
           /\ text_y' = fh >>_vars

C14_Wrapped ==
    /\ ~page_mode /\ scrolling /\ ~blackout_on
    /\ text_y = fh
    /\ scroll_speed = 20
    /\ Len(script_lines) = MaxLines

\* C15: while the session is paused an iteration without a key in scroll
\* mode leaves the offset unchanged, and only the pause key changes the pause
\* flag: the mode key, reload, blackout and every other key leave it as it
\* is, so a session paused in page mode is still paused in scroll mode.
C15_PausePersists ==
    [][ /\ (KeyNone /\ ~page_mode /\ ~scrolling) => text_y' = text_y
        /\ (scrolling' # scrolling) => KeyPause
        /\ (KeyToggleMode \/ CameraReload \/ KeyReloadNoFiles \/ KeyBlackout)
               => scrolling' = scrolling
        /\ (KeyToggleMode /\ page_mode /\ ~scrolling)
               => (~page_mode' /\ ~scrolling') ]_vars

C15_PausedMidLine ==
    /\ ~page_mode /\ ~scrolling /\ ~blackout_on
    /\ text_y % 60 # 0
    /\ script_lines # << >>

\* C16: in scroll mode, unpaused, with the screen blacked out an iteration
\* without a key leaves the offset unchanged, the blackout key that ends the
\* blackout leaves it unchanged too, and the iterations after it tick on
\* from that offset.
C16_BlackoutSuppresses ==
    [][ /\ (blackout_on /\ ~page_mode /\ scrolling /\ (KeyNone \/ KeyBlackout))
               => text_y' = text_y
        /\ (KeyBlackout /\ blackout_on) => ~blackout_on'
        /\ (~blackout_on /\ ~page_mode /\ scrolling /\ KeyNone)
               => (text_y' # text_y /\ text_y' \in { text_y - scroll_speed, fh }) ]_vars

C16_BlackedOutMidLine ==
    /\ ~page_mode /\ scrolling /\ blackout_on
    /\ text_y % 60 # 0
    /\ scroll_speed = 20

\* C17: the pause key flips the pause flag and the blackout key flips the
\* blackout flag; each leaves the other flag, the mode, the speed, the lines
\* and the anchors unchanged, and the offset as the frame part of the same
\* iteration left it.
C17_IndependentFlags ==
    [][ /\ KeyPause =>
               /\ scrolling' = ~scrolling
               /\ text_y' = FrameY
               /\ UNCHANGED << blackout_on, page_mode, scroll_speed,
                               script_lines, page_anchors >>
        /\ KeyBlackout =>
               /\ blackout_on' = ~blackout_on
               /\ text_y' = FrameY
               /\ UNCHANGED << scrolling, page_mode, scroll_speed,
                               script_lines, page_anchors >> ]_vars

C17_PausedAndBlack ==
    /\ ~scrolling /\ blackout_on /\ ~page_mode
    /\ scroll_speed = 1
    /\ text_y < 0

\* C18: a reload that finds the file (seen here when its content changed)
\* leaves the lines read from it, the anchors computed from those lines,
\* line 0 at the top of the viewport (offset between 0 and the anchor row
\* 120), and the mode, the speed, the pause flag and the blackout flag as
\* they were.
C18_ReloadShowsTop ==
    [][ (KeyReload /\ script_lines' # script_lines) =>
            /\ script_lines' \in ScriptFiles
            /\ page_anchors' = compute_page_anchors(script_lines')
            /\ text_y' >= 0 /\ text_y' <= 120
            /\ UNCHANGED << page_mode, scroll_speed, scrolling, blackout_on >> ]_vars

\* C19: the file the document was read from never changes: a reload reads
\* the file the session was started with.
C19_ReloadSameFile ==
    [][ script_file' = script_file ]_vars

\* C20: whenever the loop runs, the anchors are the anchors of the current
\* lines; a reload replaces both in one iteration.
C20_AnchorsOfCurrentLines ==
    pc = "loop" => page_anchors = compute_page_anchors(script_lines)

C20_ReloadedToEmpty ==
    /\ pc = "loop"
    /\ layout_initialized
    /\ script_lines = << >>
    /\ page_anchors = << >>

\* C21: a reload whose read fails does not end the session: the loop goes
\* on, and the lines, the anchors, the offset of the frame and the mode are
\* those before the reload.
C21_ReloadFailureNonFatal ==
    [][ KeyReloadFails =>
            /\ pc' = "loop"
            /\ text_y' = FrameY
            /\ UNCHANGED << script_lines, page_anchors, page_mode >> ]_vars

\* C22: the event of an iteration triggers the first action, in the order
\* quit, fullscreen, focus assist, pause, previous, next, mode, blackout,
\* reload, key log, whose codes it matches, and no other: the session ends,
\* the pause flag, the mode, the blackout flag or the focus flag flips
\* exactly when that action is quit, pause, mode, blackout or focus assist,
\* the script is read exactly on reload, the speed changes only on previous
\* and next, and an event that matches nothing leaves the state of the frame.
C22_FirstMatchWins ==
    [][ (event'.n > event.n /\ pc' \in { "loop", "done" }) =>
          LET a == FirstMatch(event'.key_raw, KeySets(presenter_maps, presenter_profile'))
              polled == maybe_load_state(event'.read,
                            [ focus_on |-> focus_on, flip_video |-> flip_video,
                              presenter_profile |-> presenter_profile ])
          IN  /\ (pc' = "done") = (a = "quit")
              /\ (focus_on' # polled.focus_on) = (a = "toggleFocusAssist")
              /\ (scrolling' # scrolling) = (a = "togglePauseScroll")
              /\ (page_mode' # page_mode) = (a = "toggleMode")
              /\ (blackout_on' # blackout_on) = (a = "toggleBlackout")
              /\ (text_y' = fh /\ text_y' # FrameY) => a = "reload"
              /\ scroll_speed' # scroll_speed => a \in { "previous", "next" }
              /\ a \notin { "previous", "next", "toggleMode", "reload" } => text_y' = FrameY
              /\ UNCHANGED << script_lines, page_anchors >> ]_vars

\* C23: an Escape whose code is in the play set of the active profile does
\* not flip the pause flag and toggles the mode; any other Escape flips the
\* pause flag and leaves the mode.
C23_EscapePrecedence ==
    [][ (event'.n > event.n /\ pc' = "loop" /\ Masked(event'.key_raw) = 27) =>
          LET sets == KeySets(presenter_maps, presenter_profile')
          IN  IF 27 \in sets.KEY_PLAY_RAW \/ event'.key_raw \in sets.KEY_PLAY_RAW
              THEN scrolling' = scrolling /\ page_mode' # page_mode
              ELSE scrolling' # scrolling /\ page_mode' = page_mode ]_vars

\* what the handler of a profile-driven action leaves (lines 378-406)
Handled(action) ==
    CASE action = "previous" ->
            IF page_mode THEN text_y' = jump_prev_page(page_anchors, FrameY)
            ELSE scroll_speed' = speed_down(scroll_speed)
      [] action = "next" ->
            IF page_mode THEN text_y' = jump_next_page(page_anchors, FrameY)
            ELSE scroll_speed' = speed_up(scroll_speed)
      [] action = "toggleMode" -> page_mode' # page_mode
      [] action = "toggleBlackout" -> blackout_on' # blackout_on

\* C24 as stated: an event whose raw code or masked code is in the code set
\* of previous, next, mode or blackout, and that matches no action of higher
\* priority, triggers that action.
C24_RawOrMaskedTriggers ==
    [][ (event'.n > event.n /\ pc' = "loop") =>
          LET sets == KeySets(presenter_maps, presenter_profile')
              InCodeSet(action) ==
                  IF action \in { "previous", "next", "toggleMode", "toggleBlackout" }
                  THEN \/ event'.key_raw \in CodeSet(action, sets)
                       \/ Masked(event'.key_raw) \in CodeSet(action, sets)
                  ELSE Match(action, event'.key_raw, sets)
          IN  \A i \in 5..8 :
                ( /\ InCodeSet(Priority[i])
                  /\ \A j \in 1..(i - 1) : ~InCodeSet(Priority[j]) )
                => Handled(Priority[i]) ]_vars

\* C24: an event whose raw code is in a raw set of previous, next, mode or
\* blackout, or whose masked code is in the ASCII set of previous or next or
\* is the built-in letter of mode (p) or blackout (b), and that matches no
\* action earlier in the order, triggers that action.
C24_ProfileDrivenTriggered ==
    [][ (event'.n > event.n /\ pc' = "loop") =>
          LET a == FirstMatch(event'.key_raw, KeySets(presenter_maps, presenter_profile'))
          IN  a \in { "previous", "next", "toggleMode", "toggleBlackout" }
                => Handled(a) ]_vars

\* '<' with a modifier bit (raw 316, masked 60) slowed a FreeScroll session
C24_MaskedAngleBracket ==
    /\ event.n > 0
    /\ event.key_raw = 316
    /\ presenter_profile = "generic"
    /\ ~page_mode
    /\ scroll_speed = InitialSpeed - 1

\* C25: a session whose profile is "auto" handles every event as a session
\* whose profile is "generic" does: an event that the built-in generic code
\* sets decode as previous, next, mode or blackout triggers that action.
C25_AutoIsGeneric ==
    [][ (event'.n > event.n /\ pc' = "loop" /\ presenter_profile' = "auto") =>
          LET a == FirstMatch(event'.key_raw, GenericSets)
          IN  a \in { "previous", "next", "toggleMode", "toggleBlackout" }
                => Handled(a) ]_vars

\* C26: under a profile name that is neither "generic" nor a key of the
\* loaded presenters.json the session does not fail and decodes with the
\* built-in generic code sets.
C26_UnknownNameIsGeneric ==
    [][ ( /\ event'.n > event.n
          /\ presenter_profile' \notin DOMAIN presenter_maps \cup { "generic", "auto" } ) =>
          /\ pc' \in { "loop", "done" }
          /\ LET a == FirstMatch(event'.key_raw, GenericSets)
             IN  a \in { "previous", "next", "toggleMode", "toggleBlackout" }
                   => Handled(a) ]_vars

\* C27: a presenters.json whose entries or code lists have the wrong shape
\* never ends the session.
C27_MalformedConfigNeverFatal ==
    presenter_maps \in { PresentersBadEntry, PresentersBadList }
        => pc \in { "loop", "done" }

\* C28: a runtime-state document that selects a profile name outside the
\* supported names leaves the active profile as it was.
C28_UnsupportedNameRejected ==
    [][ ( /\ event'.n > event.n
          /\ event'.read.kind = "object"
          /\ \E name \in event'.read.presenter_profile :
                name \notin DOMAIN presenter_maps \cup { "auto", "generic", "logitech_r800" } )
        => presenter_profile' = presenter_profile ]_vars

\* C29: an iteration whose poll finds the runtime-state file unparseable or
\* not an object leaves the flip flag and the profile name as they were and
\* the focus flag as the key of that iteration leaves it (f flips it), and
\* the loop goes on unless that key is q.
C29_CorruptStateIgnored ==
    [][ (event'.n > event.n /\ event'.read.kind \in { "unparseable", "not_object" }) =>
          /\ flip_video' = flip_video
          /\ presenter_profile' = presenter_profile
          /\ focus_on' = IF Masked(event'.key_raw) = 102 THEN ~focus_on ELSE focus_on
          /\ pc' = IF Masked(event'.key_raw) = 113 THEN "done" ELSE "loop" ]_vars

\* the web UI had switched focus assist off and the flip on, then the file
\* was read while it was not an object
C29_CorruptAfterFlags ==
    /\ event.n = 2
    /\ event.read.kind = "not_object"
    /\ ~focus_on
    /\ flip_video
    /\ pc = "loop"

\* C30: in an iteration whose poll switches the profile, the event is
\* decoded with the code sets of the new profile alone: the mode, the
\* blackout flag and the pause flag flip exactly when those sets decode the
\* event as mode, blackout or pause, and previous and next act when they
\* decode it so.
C30_SwitchIsAtomic ==
    [][ (event'.n > event.n /\ pc' = "loop" /\ presenter_profile' # presenter_profile) =>
          LET a == Decode(event'.key_raw, KeySets(presenter_maps, presenter_profile'))
          IN  /\ event'.action = a
              /\ (page_mode' # page_mode) = (a = "toggleMode")
              /\ (blackout_on' # blackout_on) = (a = "toggleBlackout")
              /\ (scrolling' # scrolling) = (a = "togglePauseScroll")
              /\ a \in { "previous", "next" } => Handled(a) ]_vars

\* the first poll selected the remote's profile and the key of the same
\* iteration was '.', which that profile maps to blackout and the profile
\* before it to reload
C30_SwitchedWithKey ==
    /\ event.n = 1
    /\ event.key_raw = 46
    /\ event.read.presenter_profile = { "logitech_r800" }
    /\ presenter_profile = "logitech_r800"
    /\ blackout_on
    /\ text_y # fh

\* C31: once the display loop has ended, by quit or by an exception, the
\* camera is not held any more and the window is destroyed.
C31_HandlesReleasedOnExit ==
    pc # "loop" => (device.cap # "open" /\ device.window = "destroyed")

\* the session had a camera and was ended with q
C31_QuitWithCamera ==
    /\ pc = "done"
    /\ device.cap = "released"
    /\ device.window = "destroyed"

\* C32: once focus-assist compositing has raised, focus assist is off in
\* every later state of the session.
C32_FocusAssistStaysOff ==
    device.focus_failed => ~focus_on

\* C34: every iteration of the display loop reaches the key poll.
C34_EveryIterationPolls ==
    device.last # "skipped"

\* C35: the failed camera read that exceeds max_failed_reads in a row
\* releases the camera and the loop goes on; an iteration whose read
\* succeeds leaves the count of failed reads at 0.
C35_FallbackKeepsRunning ==
    [][ /\ (device.cap = "open" /\ device'.frame_count > max_failed_reads)
            => (device'.cap = "released" /\ pc' = "loop")
        /\ device'.last = "polled" => device'.frame_count = 0 ]_vars

\* C33: the start of a session with a non-empty script leaves Paged mode,
\* the offset that puts the first page anchor on the anchor row, no pause,
\* no blackout, speed 3, and a layout flag under which the first frame
\* keeps that offset.
C33_StartAligned ==
    [][ (SessionStart /\ script_lines # << >>) =>
          /\ page_mode'
          /\ page_anchors' # << >>
          /\ text_y' = page_anchor_y - page_anchors'[1] * line_spacing
          /\ get_current_top_index(text_y') = 0
          /\ scrolling'
          /\ ~blackout_on'
          /\ scroll_speed' = 3
          /\ LayoutY' = text_y'
          /\ text_y' # fh' ]_vars

\* a script of several pages has just been started
C33_StartedOnFirstPage ==
    /\ pc = "loop"
    /\ Len(page_anchors) > 1
    /\ text_y = page_anchor_y
    /\ layout_initialized

\* C36: whenever the loop runs in Paged mode on a non-empty script, the
\* offset puts one of the page anchors of the script on the anchor row.
C36_PagedIsAnchorAligned ==
    (pc = "loop" /\ page_mode /\ script_lines # << >>) =>
        \E a \in Range(page_anchors) : text_y = page_anchor_y - a * line_spacing

\* C37 as stated: every page anchor of the script is the top index after
\* some sequence of next and previous from the first page.
C37_EveryPageReachable ==
    (pc = "loop" /\ page_anchors # << >>) =>
        \A a \in Range(page_anchors) : a \in PagedTops(page_anchors)

\* C37: every page anchor that does not directly follow another anchor is
\* the top index after some sequence of next and previous from the first
\* page.
C37_SeparatePagesReachable ==
    (pc = "loop" /\ page_anchors # << >>) =>
        \A a \in Range(page_anchors) :
            (a - 1) \notin Range(page_anchors) => a \in PagedTops(page_anchors)

\* next has skipped the anchor one line below the first one and shows the
\* page after it
C37_SkippedAdjacentAnchor ==
    /\ pc = "loop"
    /\ page_mode
    /\ page_anchors = << 0, 1, 3 >>
    /\ get_current_top_index(text_y) = 3

\* C38: where a frame is drawn (the offset after the layout step) and where
\* input is handled (the offset after the tick and the wrap), the offset is
\* between -len(lines) * line_spacing and max(viewport height, anchor row),
\* and the top index is between 0 and len(lines) + 2.
C38_OffsetBounded ==
    pc = "loop" =>
        \A y \in { LayoutY, FrameY } :
            /\ - Len(script_lines) * line_spacing <= y
            /\ y <= IF fh >= page_anchor_y THEN fh ELSE page_anchor_y
            /\ 0 <= get_current_top_index(y)
            /\ get_current_top_index(y) <= Len(script_lines) + 2

\* free scroll has carried the last line of a script to the top edge: the
\* next tick wraps
C38_AboutToWrap ==
    /\ pc = "loop"
    /\ ~page_mode
    /\ scrolling
    /\ ~blackout_on
    /\ script_lines # << >>
    /\ text_y < 0
    /\ text_y - scroll_speed + Len(script_lines) * line_spacing < 0

\* C39: at most one recording thread is alive at any time, and
\* api_start_record issued while a recording thread is alive is rejected
\* with 'recording already active' and leaves recording_state unchanged.
C39_OneRecordingThread ==
    Cardinality({ i \in 1..MaxThreads : is_alive(web, i) }) <= 1

\* C40: a start_teleprompter request naming a file that does not exist
\* leaves the tracked process as it was: none launched, none stopped.
C40_MissingFileNoSideEffect ==
    [][ (\E auto_record \in BOOLEAN : start_teleprompter(FALSE, auto_record))
            => web'.process = web.process ]_vars
====
